---- MODULE Spec2Model ----
(***************************************************************************)
(* Model of the deck importer of the presentation generator: parsePptx in  *)
(* src/App.tsx.  The importer opens a zip archive, reads the manifest      *)
(* (ppt/presentation.xml), starts one asynchronous extraction task per     *)
(* p:sldId node, and collects the tasks' results with Promise.all.         *)
(*                                                                         *)
(* An archive is a function from part paths to parsed XML documents.  A    *)
(* path is a sequence of segments (the string split at "/"); text is a     *)
(* string.  JavaScript is run-to-completion, so one action is the code     *)
(* between two awaits of one async function.                               *)
(***************************************************************************)
EXTENDS Integers, Sequences, FiniteSets, TLC

VARIABLES
    zip,         \* the archive: part path -> parsed document
    pc,          \* where parsePptx is: the await it is suspended at, or its outcome
    tasks,       \* the per-slide extraction tasks, in manifest order
    values,      \* the slots of Promise.all
    result,      \* the returned Slide sequence
    error,       \* the message of the thrown Error
    outOfOrder,  \* history: a task was fulfilled before a task of a smaller index
    parser,      \* the XML parser: the parts that are not well-formed, and what it makes of them
    second,      \* a second call of parsePptx on the same file
    app,         \* the state of the App component
    viewer,      \* the state of the SlideViewer component
    player,      \* the state of the VideoPlayer component
    voice,       \* the state of the useVoiceCommands hook
    inFlight     \* the calls of generateImage that have not settled, with their closures

\* The state of one call of parsePptx, and the components' state.
importer == <<zip, pc, tasks, values, result, error, outOfOrder>>
ui == <<app, viewer, player, voice, inFlight>>

\* What a call of parsePptx leaves alone.
outside == <<parser, second, ui>>

vars == <<importer, outside>>

(***************************************************************************)
(* Bounds of the model.                                                    *)
(***************************************************************************)
MaxRefs == 3      \* p:sldId nodes in a manifest
MaxShapes == 2    \* p:sp shapes in a generated slide part
MaxTwiceRefs == 2 \* p:sldId nodes in the manifest of a file imported twice
MaxSlides == 2    \* slides of a deck in the slide viewer
MaxImageRequests == 1 \* calls of generateImage in flight
MaxPlayerSlides == 3 \* slides of a deck in the video player
MaxTimers == 2     \* setTimeout calls of the video player that are pending

(***************************************************************************)
(* Text helpers: Array.prototype.join("") and nested-list flattening.      *)
(***************************************************************************)
RECURSIVE JoinText(_)
JoinText(ts) == IF ts = <<>> THEN "" ELSE Head(ts) \o JoinText(Tail(ts))

RECURSIVE Flatten(_)
Flatten(ss) == IF ss = <<>> THEN <<>> ELSE Head(ss) \o Flatten(Tail(ss))

Last(s) == s[Len(s)]

(***************************************************************************)
(* XML documents.  Every part is a document with the p:sldId nodes, the    *)
(* Relationship nodes and the p:sp shapes it holds (each list in document  *)
(* order); a kind of part has only one of the three non-empty.  A shape    *)
(* has the type of its p:ph placeholder ("" when it has none) and its a:p  *)
(* paragraphs, each a list of a:t text runs.                               *)
(***************************************************************************)
EmptyDoc == [sldIds |-> <<>>, rels |-> <<>>, shapes |-> <<>>]
ManifestDoc(ids) == [EmptyDoc EXCEPT !.sldIds = ids]
RelsDoc(rs) == [EmptyDoc EXCEPT !.rels = rs]
ShapesDoc(shs) == [EmptyDoc EXCEPT !.shapes = shs]

Rel(id, type, target) == [Id |-> id, Type |-> type, Target |-> target]

RelTypeSlide == "http://schemas.openxmlformats.org/officeDocument/2006/relationships/slide"
RelTypeLayout == "http://schemas.openxmlformats.org/officeDocument/2006/relationships/slideLayout"
RelTypeNotes == "http://schemas.openxmlformats.org/officeDocument/2006/relationships/notesSlide"

\* Element names of the slide format, as the parser yields them.  The
\* documents come from DOMParser.parseFromString(text, "application/xml"),
\* which is namespace-aware: the element written <p:sp> has the prefix "p",
\* the local name "sp" and the qualified name "p:sp".
ElSpTree == [prefix |-> "p", local |-> "spTree"]
ElSp == [prefix |-> "p", local |-> "sp"]
ElNvSpPr == [prefix |-> "p", local |-> "nvSpPr"]
ElNvPr == [prefix |-> "p", local |-> "nvPr"]
ElPh == [prefix |-> "p", local |-> "ph"]
ElP == [prefix |-> "a", local |-> "p"]
ElT == [prefix |-> "a", local |-> "t"]
ElSldId == [prefix |-> "p", local |-> "sldId"]

ElRelationship == [prefix |-> "", local |-> "Relationship"]

QualifiedName(el) == IF el.prefix = "" THEN el.local ELSE el.prefix \o ":" \o el.local

\* Element.getElementsByTagName(name): the DOM standard compares the name
\* with the qualified name of each descendant, so "a:t" finds <a:t>.
TagNameMatches(name, el) == name = QualifiedName(el)

\* A type selector of querySelector and closest: Selectors compares the
\* selector's name with the local name of the element (a namespace can only
\* be given as ns|name, and these methods take no namespace declarations).
\* The escaped identifier p\:sp is the name "p:sp", which is the local
\* name of no element of a namespace-aware document; it would match only in
\* a document of the HTML parser, which keeps "p:sp" as the local name.
TypeSelectorMatches(ident, el) == ident = el.local

\* zip.file(path): the entry, or null.
HasFile(z, path) == path \in DOMAIN z

\* parser.parseFromString(text, "application/xml") never throws.  Of text
\* that is not well-formed, `content` is what precedes the first error.
\* Blink and WebKit return the document built up to the error, with a
\* parsererror element (of the XHTML namespace) added under its root; Gecko
\* returns a document that holds a parsererror element and nothing else.
ParseFromString(content, wellFormed) ==
    IF wellFormed \/ parser.keepsContent THEN content ELSE EmptyDoc

\* The document of lines 48, 58, 65, 81 and 87: the entry's text, parsed.
File(z, path) ==
    IF HasFile(z, path) THEN ParseFromString(z[path], path \notin parser.illFormed)
    ELSE EmptyDoc

ManifestPath == <<"ppt", "presentation.xml">>
PresRelsPath == <<"ppt", "_rels", "presentation.xml.rels">>

(***************************************************************************)
(* Part paths the importer builds (template strings of lines 63, 78, 85).  *)
(***************************************************************************)
\* `ppt/${slidePath}`
SlidePartPath(slidePath) == <<"ppt">> \o slidePath

\* `ppt/slides/_rels/${slidePath.split('/').pop()}.rels`
SlideRelsPath(slidePath) == <<"ppt", "slides", "_rels", Last(slidePath) \o ".rels">>

\* notesPath.replace('../', ''): the first occurrence of "../" is removed,
\* that is the first ".." segment that another segment follows.
RECURSIVE ReplaceParentMarker(_)
ReplaceParentMarker(p) ==
    IF Len(p) < 2 THEN p
    ELSE IF Head(p) = ".." THEN Tail(p)
    ELSE <<Head(p)>> \o ReplaceParentMarker(Tail(p))

\* `ppt/slides/${notesPath.replace('../', '')}`
NotesPartPath(notesPath) == <<"ppt", "slides">> \o ReplaceParentMarker(notesPath)

(***************************************************************************)
(* DOM queries of the importer.                                            *)
(***************************************************************************)
\* presentationXml.getElementsByTagName("p:sldId"), as the r:id attributes
\* of the nodes ("" for a node without the attribute).
SlideIdNodes(doc) == IF TagNameMatches("p:sldId", ElSldId) THEN doc.sldIds ELSE <<>>

\* querySelector returns the first match in document order: the index of
\* the first TRUE of a list of match results, 0 for null.
FirstIndex(matches) ==
    LET S == {k \in 1..Len(matches) : matches[k]}
    IN  IF S = {} THEN 0 ELSE CHOOSE k \in S : \A j \in S : k <= j

\* querySelector(`Relationship[Id="${rId}"]`)?.getAttribute("Target"):
\* the target of the first Relationship with that Id, <<>> when there is
\* none or it has no Target.
RelationshipTargetById(doc, rId) ==
    LET Test(r) == TypeSelectorMatches("Relationship", ElRelationship) /\ r.Id = rId
        k == FirstIndex([j \in 1..Len(doc.rels) |-> Test(doc.rels[j])])
    IN  IF k = 0 THEN <<>> ELSE doc.rels[k].Target

\* The attribute test [Type*="notesSlide"]: the type contains "notesSlide".
TypeContainsNotesSlide(type) == type = RelTypeNotes

\* querySelector('Relationship[Type*="notesSlide"]')?.getAttribute("Target")
NotesRelationshipTarget(doc) ==
    LET Test(r) == TypeSelectorMatches("Relationship", ElRelationship)
                     /\ TypeContainsNotesSlide(r.Type)
        k == FirstIndex([j \in 1..Len(doc.rels) |-> Test(doc.rels[j])])
    IN  IF k = 0 THEN <<>> ELSE doc.rels[k].Target

\* The selector 'p\:spTree p\:sp p\:nvSpPr p\:nvPr p\:ph[type=...]': five
\* type selectors joined by descendant combinators, against the element
\* chain spTree > sp > nvSpPr > nvPr > ph of a shape of the slide part.
PlaceholderSelector == <<"p:spTree", "p:sp", "p:nvSpPr", "p:nvPr", "p:ph">>
PlaceholderAncestry == <<ElSpTree, ElSp, ElNvSpPr, ElNvPr, ElPh>>

SelectorMatchesShape(shape, types) ==
    /\ shape.ph \in types
    /\ \A k \in 1..Len(PlaceholderSelector) :
          TypeSelectorMatches(PlaceholderSelector[k], PlaceholderAncestry[k])

\* slideXml.querySelector(<selector list>)?.closest("p\\:sp"): the index of
\* the first shape, in document order, whose placeholder the selector list
\* matches; 0 for null.
QueryPlaceholderShape(doc, types) ==
    LET Test(sh) == SelectorMatchesShape(sh, types)
        k == FirstIndex([j \in 1..Len(doc.shapes) |-> Test(doc.shapes[j])])
    IN  IF k # 0 /\ TypeSelectorMatches("p:sp", ElSp) THEN k ELSE 0

\* sp.getElementsByTagName("a:p"), each with its getElementsByTagName("a:t")
ParagraphsOf(shape) == IF TagNameMatches("a:p", ElP) THEN shape.paras ELSE <<>>
RunsOfParagraph(para) == IF TagNameMatches("a:t", ElT) THEN para ELSE <<>>

\* sp.getElementsByTagName("a:t"): every text run of the shape
RunsOfShape(shape) == IF TagNameMatches("a:t", ElT) THEN Flatten(shape.paras) ELSE <<>>

\* notesXml.getElementsByTagName("a:t"): every text run of the document
RunsOfDocument(doc) == Flatten([k \in 1..Len(doc.shapes) |-> RunsOfShape(doc.shapes[k])])

\* Faulty variant of ExtractTitle: a slide without title shape gets the
\* empty title.
ExtractTitleEmptyDefault(slideXml) ==
    LET titleSp == QueryPlaceholderShape(slideXml, {"title", "ctrTitle"})
    IN  IF titleSp # 0 THEN JoinText(RunsOfShape(slideXml.shapes[titleSp]))
        ELSE ""

\* lines 68-70
ExtractTitle(slideXml) ==
    LET titleSp == QueryPlaceholderShape(slideXml, {"title", "ctrTitle"})
    IN  IF titleSp # 0 THEN JoinText(RunsOfShape(slideXml.shapes[titleSp]))
        ELSE "Untitled Slide"

\* lines 73-75
ExtractContent(slideXml) ==
    LET contentSp == QueryPlaceholderShape(slideXml, {"body"})
        ps == IF contentSp # 0 THEN ParagraphsOf(slideXml.shapes[contentSp]) ELSE <<>>
    IN  [k \in 1..Len(ps) |-> JoinText(RunsOfParagraph(ps[k]))]

(***************************************************************************)
(* A per-slide extraction task: the async callback of lines 51-94.  pc is  *)
(* the await the task is suspended at, or how it settled; out is the       *)
(* fulfilment value, <<>> for null and <<slide>> for a Slide.              *)
(***************************************************************************)
Null == <<>>
SlideRecord(title, content, speakerNotes) ==
    [title |-> title, content |-> content, speakerNotes |-> speakerNotes]

NewTask(rId) ==
    [pc |-> "start", rId |-> rId, slidePath |-> <<>>, title |-> "",
     content |-> <<>>, notesPath |-> <<>>, out |-> Null]

Fulfil(t, v) == [t EXCEPT !.pc = "fulfilled", !.out = v]

\* Faulty variant of StartTask: a missing relationship index skips the
\* reference instead of throwing.
StartTaskSkipping(z, rId) ==
    LET t == NewTask(rId)
    IN  IF rId = "" THEN Fulfil(t, Null)
        ELSE IF ~HasFile(z, PresRelsPath) THEN Fulfil(t, Null)
        ELSE [t EXCEPT !.pc = "readPresRels"]

\* lines 52-58: up to the await of the relationship index
StartTask(z, rId) ==
    LET t == NewTask(rId)
    IN  IF rId = "" THEN Fulfil(t, Null)
        ELSE IF ~HasFile(z, PresRelsPath) THEN [t EXCEPT !.pc = "rejected"]
        ELSE [t EXCEPT !.pc = "readPresRels"]

\* Faulty variant of AfterPresRels: a missing slide part throws instead of
\* skipping the reference.
AfterPresRelsThrowing(z, t) ==
    LET slidePath == RelationshipTargetById(File(z, PresRelsPath), t.rId)
    IN  IF slidePath = <<>> THEN Fulfil(t, Null)
        ELSE IF ~HasFile(z, SlidePartPath(slidePath)) THEN [t EXCEPT !.pc = "rejected"]
        ELSE [t EXCEPT !.pc = "readSlide", !.slidePath = slidePath]

\* lines 58-65: up to the await of the slide part
AfterPresRels(z, t) ==
    LET slidePath == RelationshipTargetById(File(z, PresRelsPath), t.rId)
    IN  IF slidePath = <<>> THEN Fulfil(t, Null)
        ELSE IF ~HasFile(z, SlidePartPath(slidePath)) THEN Fulfil(t, Null)
        ELSE [t EXCEPT !.pc = "readSlide", !.slidePath = slidePath]

\* lines 65-81: up to the await of the slide's relationship index
AfterSlide(z, t) ==
    LET slideXml == File(z, SlidePartPath(t.slidePath))
        title == ExtractTitle(slideXml)
        content == ExtractContent(slideXml)
    IN  IF HasFile(z, SlideRelsPath(t.slidePath))
        THEN [t EXCEPT !.pc = "readSlideRels", !.title = title, !.content = content]
        ELSE Fulfil([t EXCEPT !.title = title, !.content = content],
                    <<SlideRecord(title, content, "")>>)

\* Faulty variant of AfterSlideRels: the notes part is read without the
\* null test of line 86, which throws when the part is missing.
AfterSlideRelsUnchecked(z, t) ==
    LET notesPath == NotesRelationshipTarget(File(z, SlideRelsPath(t.slidePath)))
    IN  IF notesPath = <<>> THEN Fulfil(t, <<SlideRecord(t.title, t.content, "")>>)
        ELSE IF HasFile(z, NotesPartPath(notesPath))
        THEN [t EXCEPT !.pc = "readNotes", !.notesPath = notesPath]
        ELSE [t EXCEPT !.pc = "rejected"]

\* lines 81-87: up to the await of the notes part
AfterSlideRels(z, t) ==
    LET notesPath == NotesRelationshipTarget(File(z, SlideRelsPath(t.slidePath)))
    IN  IF notesPath # <<>> /\ HasFile(z, NotesPartPath(notesPath))
        THEN [t EXCEPT !.pc = "readNotes", !.notesPath = notesPath]
        ELSE Fulfil(t, <<SlideRecord(t.title, t.content, "")>>)

\* lines 87-93
AfterNotes(z, t) ==
    LET notesXml == File(z, NotesPartPath(t.notesPath))
        speakerNotes == JoinText(RunsOfDocument(notesXml))
    IN  Fulfil(t, <<SlideRecord(t.title, t.content, speakerNotes)>>)

(***************************************************************************)
(* Promise.all(slidePromises), line 96: a list with one slot per promise;  *)
(* the fulfilment of promise i stores its value in slot i.                 *)
(***************************************************************************)
PendingSlot == [done |-> FALSE, value |-> Null]

\* Faulty variant of PromiseAllResolveElement: the value goes to the first
\* free slot, so the list is in completion order.
PromiseAllCompletionOrder(vals, i, v) ==
    LET free == {k \in 1..Len(vals) : ~vals[k].done}
    IN  [vals EXCEPT ![CHOOSE k \in free : \A j \in free : k <= j] =
                        [done |-> TRUE, value |-> v]]

PromiseAllResolveElement(vals, i, v) == [vals EXCEPT ![i] = [done |-> TRUE, value |-> v]]

\* The fulfilments of `ts` from index i on, in index order.
RECURSIVE ResolveFulfilled(_, _, _)
ResolveFulfilled(vals, ts, i) ==
    IF i > Len(ts) THEN vals
    ELSE ResolveFulfilled(IF ts[i].pc = "fulfilled"
                          THEN PromiseAllResolveElement(vals, i, ts[i].out)
                          ELSE vals, ts, i + 1)

\* .filter(s => s !== null)
RECURSIVE FilterNotNull(_)
FilterNotNull(vals) ==
    IF vals = <<>> THEN <<>>
    ELSE Head(vals).value \o FilterNotNull(Tail(vals))

ErrNoManifest == "Invalid PPTX file: presentation.xml not found."
ErrNoPresRels == "presentation.xml.rels not found"
ErrNoSlides == "Could not find any slides in the PPTX file."

(***************************************************************************)
(* Input archives.  Two families: decks, which vary the manifest and what  *)
(* the references resolve to over three fixed slide parts, and single-     *)
(* slide archives, which vary the shapes of the slide part and its notes.  *)
(***************************************************************************)
NoFiles == [p \in {} |-> EmptyDoc]
Only(cond, path, doc) == IF cond THEN path :> doc ELSE NoFiles

Shape(ph, paras) == [ph |-> ph, paras |-> paras]

RECURSIVE SeqsUpTo(_, _)
SeqsUpTo(S, n) ==
    IF n = 0 THEN {<<>>}
    ELSE LET shorter == SeqsUpTo(S, n - 1)
         IN  shorter \cup {Append(s, x) : s \in shorter, x \in S}

\* r:id attributes of a manifest's p:sldId nodes; "" is a node without one.
RefIds == {"", "rId1", "rId2", "rId3"}
Manifests == SeqsUpTo(RefIds, MaxRefs)

SlideTarget(name) == <<"slides", name>>
SlidePart(name) == <<"ppt", "slides", name>>
SlideRelsPart(name) == <<"ppt", "slides", "_rels", name \o ".rels">>
LayoutRel == Rel("rId1", RelTypeLayout, <<"..", "slideLayouts", "slideLayout1.xml">>)

NotesShapes(text) ==
    <<Shape("body", <<text>>), Shape("sldNum", <<<<"1">>>>)>>

\* What is wrong with the second slide reference of a deck.
Defects == {"none", "noManifest", "noPresRels", "noTarget", "noRelationship", "noPart"}

DeckPresRels(defect) ==
    <<Rel("rId1", RelTypeSlide, SlideTarget("slide1.xml"))>>
    \o (IF defect = "noRelationship" THEN <<>>
        ELSE <<Rel("rId2", RelTypeSlide,
                   IF defect = "noTarget" THEN <<>> ELSE SlideTarget("slide2.xml"))>>)
    \o <<Rel("rId3", RelTypeSlide, SlideTarget("slide3.xml"))>>

DeckArchive(ids, defect) ==
    Only(defect # "noManifest", ManifestPath, ManifestDoc(ids))
    @@ Only(defect # "noPresRels", PresRelsPath, RelsDoc(DeckPresRels(defect)))
    @@ SlidePart("slide1.xml") :> ShapesDoc(<<
           Shape("title", <<<<"Intro", " to Rome">>>>),
           Shape("body", <<<<"Founding">>, <<"Republic", " and Empire">>>>)>>)
    @@ SlideRelsPart("slide1.xml") :> RelsDoc(<<LayoutRel,
           Rel("rId2", RelTypeNotes, <<"notes1.xml">>)>>)
    @@ SlidePart("notes1.xml") :> ShapesDoc(NotesShapes(<<"Welcome", " everyone">>))
    @@ Only(defect # "noPart", SlidePart("slide2.xml"), ShapesDoc(<<
           Shape("body", <<<<"Legions">>>>)>>))
    @@ SlidePart("slide3.xml") :> ShapesDoc(<<
           Shape("ctrTitle", <<<<"The End">>>>)>>)
    @@ SlideRelsPart("slide3.xml") :> RelsDoc(<<
           Rel("rId1", RelTypeNotes, <<"notes3.xml">>), LayoutRel>>)
    @@ SlidePart("notes3.xml") :> ShapesDoc(NotesShapes(<<"Thanks">>))

DeckArchives == {DeckArchive(ids, defect) : ids \in Manifests, defect \in Defects}

\* Shapes of a generated slide part.
PlaceholderTypes == {"title", "ctrTitle", "body", ""}
ParagraphLists ==
    {<<>>, <<<<"Intro", " to Rome">>>>, <<<<"Rise">>, <<>>, <<"Fall", " of Rome">>>>}
Shapes == {Shape(ph, paras) : ph \in PlaceholderTypes, paras \in ParagraphLists}
ShapeLists == SeqsUpTo(Shapes, MaxShapes)

\* The notes of a generated slide part.
NotesCases ==
    {"noRels", "noNotesRel", "noTarget", "parentMarker", "misplaced", "sibling", "noRuns",
     "missingPart"}

ParentMarkerTarget == <<"..", "notesSlides", "notesSlide1.xml">>
NotesText == <<"Speak ", "slowly">>

SlideArchive(shapes, notes) ==
    ManifestPath :> ManifestDoc(<<"rId1">>)
    @@ PresRelsPath :> RelsDoc(<<Rel("rId1", RelTypeSlide, SlideTarget("slide1.xml"))>>)
    @@ SlidePart("slide1.xml") :> ShapesDoc(shapes)
    @@ Only(notes # "noRels", SlideRelsPart("slide1.xml"), RelsDoc(
           <<LayoutRel>> \o
           (CASE notes = "noNotesRel" -> <<>>
              [] notes = "noTarget" -> <<Rel("rId2", RelTypeNotes, <<>>)>>
              [] notes \in {"parentMarker", "misplaced"} ->
                    <<Rel("rId2", RelTypeNotes, ParentMarkerTarget)>>
              [] OTHER -> <<Rel("rId2", RelTypeNotes, <<"notes1.xml">>)>>)))
    @@ Only(notes = "parentMarker", <<"ppt", "notesSlides", "notesSlide1.xml">>,
            ShapesDoc(NotesShapes(NotesText)))
    @@ Only(notes = "misplaced", <<"ppt", "slides", "notesSlides", "notesSlide1.xml">>,
            ShapesDoc(NotesShapes(NotesText)))
    @@ Only(notes = "sibling", SlidePart("notes1.xml"), ShapesDoc(NotesShapes(NotesText)))
    @@ Only(notes = "noRuns", SlidePart("notes1.xml"), ShapesDoc(<<Shape("body", <<<<>>>>)>>))

SlideArchives == {SlideArchive(shapes, notes) : shapes \in ShapeLists, notes \in NotesCases}

Archives == DeckArchives \cup SlideArchives

(***************************************************************************)
(* parsePptx, lines 42-99.                                                 *)
(***************************************************************************)
\* Every part of the archive is well-formed XML.
WellFormed == [keepsContent |-> TRUE, illFormed |-> {}]

\* The call of parsePptx on the archive z.
Called(z) ==
    /\ zip = z
    /\ pc = "loadAsync"
    /\ tasks = <<>>
    /\ values = <<>>
    /\ result = <<>>
    /\ error = ""
    /\ outOfOrder = FALSE

\* parsePptx is not running.
NoImport ==
    /\ zip = NoFiles
    /\ pc = "notCalled"
    /\ tasks = <<>>
    /\ values = <<>>
    /\ result = <<>>
    /\ error = ""
    /\ outOfOrder = FALSE

\* No second call is made.
NotCalled ==
    [pc |-> "notCalled", tasks |-> <<>>, values |-> <<>>, result |-> <<>>, error |-> "",
     outOfOrder |-> FALSE]

\* useState of lines 13-18; null is <<>> and a message m is <<m>>.
AppInitial ==
    [topic |-> "", slides |-> <<>>, isLoading |-> FALSE, loadingMessage |-> "",
     error |-> Null, viewMode |-> "EDITOR", request |-> "none", before |-> <<>>]

\* A component that is not rendered.
Unmounted == [mounted |-> FALSE]

\* parsePptx called on its own.
NoUi ==
    /\ app = AppInitial
    /\ viewer = Unmounted
    /\ player = Unmounted
    /\ voice = Unmounted
    /\ inFlight = {}

Init ==
    /\ \E z \in Archives : Called(z)
    /\ parser = WellFormed
    /\ second = NotCalled
    /\ NoUi

\* Faulty variant of ManifestMissing: the manifest lookup is not checked.
ManifestMissingIgnored(z) == FALSE

\* Faulty variant of NoSlidesParsed: an empty result is returned.
NoSlidesParsedIgnored(parsedSlides) == FALSE

\* line 47
ManifestMissing(z) == ~HasFile(z, ManifestPath)

\* line 97
NoSlidesParsed(parsedSlides) == Len(parsedSlides) = 0

\* lines 44-48: the archive is loaded; the manifest is looked up and read.
OpenManifest ==
    /\ pc = "loadAsync"
    /\ IF ManifestMissing(zip)
       THEN pc' = "failed" /\ error' = ErrNoManifest
       ELSE pc' = "readManifest" /\ UNCHANGED error
    /\ UNCHANGED <<zip, tasks, values, result, outOfOrder>>
    /\ UNCHANGED outside

\* lines 48-96: the manifest is parsed; map() runs every callback up to its
\* first await, and Promise.all is awaited.
IssueTasks ==
    /\ pc = "readManifest"
    /\ LET ids == SlideIdNodes(File(zip, ManifestPath))
           ts == [i \in 1..Len(ids) |-> StartTask(zip, ids[i])]
       IN  /\ tasks' = ts
           /\ values' = ResolveFulfilled([i \in 1..Len(ids) |-> PendingSlot], ts, 1)
    /\ pc' = "awaitAll"
    /\ UNCHANGED <<zip, result, error, outOfOrder>>
    /\ UNCHANGED outside

\* Task i resumes from the await it is suspended at and runs to its next
\* await or to its return.
Resume(i, t) ==
    /\ tasks' = [tasks EXCEPT ![i] = t]
    /\ values' = IF t.pc = "fulfilled"
                 THEN PromiseAllResolveElement(values, i, t.out)
                 ELSE values
    /\ outOfOrder' = (outOfOrder \/ (t.pc = "fulfilled" /\ \E j \in 1..(i - 1) : ~values[j].done))
    /\ UNCHANGED <<zip, pc, result, error>>
    /\ UNCHANGED outside

ReadPresRels(i) == tasks[i].pc = "readPresRels" /\ Resume(i, AfterPresRels(zip, tasks[i]))
ReadSlide(i) == tasks[i].pc = "readSlide" /\ Resume(i, AfterSlide(zip, tasks[i]))
ReadSlideRels(i) == tasks[i].pc = "readSlideRels" /\ Resume(i, AfterSlideRels(zip, tasks[i]))
ReadNotes(i) == tasks[i].pc = "readNotes" /\ Resume(i, AfterNotes(zip, tasks[i]))

\* lines 96-98: every promise is fulfilled.
PromiseAllFulfilled ==
    /\ pc = "awaitAll"
    /\ \A i \in 1..Len(values) : values[i].done
    /\ LET parsedSlides == FilterNotNull(values)
       IN  IF NoSlidesParsed(parsedSlides)
           THEN pc' = "failed" /\ error' = ErrNoSlides /\ UNCHANGED result
           ELSE pc' = "returned" /\ result' = parsedSlides /\ UNCHANGED error
    /\ UNCHANGED <<zip, tasks, values, outOfOrder>>
    /\ UNCHANGED outside

\* line 96: a promise is rejected (line 57), so Promise.all rejects.
PromiseAllRejected ==
    /\ pc = "awaitAll"
    /\ \E i \in 1..Len(tasks) : tasks[i].pc = "rejected"
    /\ pc' = "failed"
    /\ error' = ErrNoPresRels
    /\ UNCHANGED <<zip, tasks, values, result, outOfOrder>>
    /\ UNCHANGED outside

Next ==
    \/ OpenManifest
    \/ IssueTasks
    \/ \E i \in 1..Len(tasks) : ReadPresRels(i)
    \/ \E i \in 1..Len(tasks) : ReadSlide(i)
    \/ \E i \in 1..Len(tasks) : ReadSlideRels(i)
    \/ \E i \in 1..Len(tasks) : ReadNotes(i)
    \/ PromiseAllFulfilled
    \/ PromiseAllRejected

Spec == Init /\ [][Next]_vars

\* The callback of lines 51-94 run from its start to its settlement with no
\* other task in between.
RECURSIVE RunTask(_, _)
RunTask(z, t) ==
    CASE t.pc = "readPresRels" -> RunTask(z, AfterPresRels(z, t))
      [] t.pc = "readSlide" -> RunTask(z, AfterSlide(z, t))
      [] t.pc = "readSlideRels" -> RunTask(z, AfterSlideRels(z, t))
      [] t.pc = "readNotes" -> RunTask(z, AfterNotes(z, t))
      [] OTHER -> t

(***************************************************************************)
(* Vocabulary of the properties: what the archive says, read off the       *)
(* archive itself.                                                         *)
(***************************************************************************)
Completed == pc \in {"returned", "failed"}

Least(S) == CHOOSE k \in S : \A j \in S : k <= j

ManifestPresent == ManifestPath \in DOMAIN zip
PresRelsPresent == PresRelsPath \in DOMAIN zip
ManifestRefs == IF ManifestPresent THEN zip[ManifestPath].sldIds ELSE <<>>

\* The target the relationship index gives a relationship identifier.
RefTarget(rId) ==
    LET rs == IF PresRelsPresent THEN zip[PresRelsPath].rels ELSE <<>>
        ks == {k \in 1..Len(rs) : rs[k].Id = rId}
    IN  IF ks = {} THEN <<>> ELSE rs[Least(ks)].Target

\* A reference resolves: it has a relationship identifier, the index gives
\* the identifier a target, and the target slide part is in the archive.
Resolves(rId) ==
    /\ rId # ""
    /\ PresRelsPresent
    /\ RefTarget(rId) # <<>>
    /\ (<<"ppt">> \o RefTarget(rId)) \in DOMAIN zip

ResolvableRefs == SelectSeq(ManifestRefs, Resolves)

\* The Slide record of a resolvable reference.
SlideOfRef(rId) == RunTask(zip, StartTask(zip, rId)).out[1]

\* Task i located its slide part; it located it and has returned.
Located(i) == tasks[i].slidePath # <<>>
Extracted(i) == Located(i) /\ tasks[i].pc = "fulfilled"

\* No task that located its slide part throws, and the import does not fail
\* once a task has located its slide part.
LocatedNeverFails ==
    \A i \in 1..Len(tasks) : Located(i) => (tasks[i].pc # "rejected" /\ pc # "failed")
SlideXmlOf(i) == zip[<<"ppt">> \o tasks[i].slidePath]

PlaceholderShapes(doc, types) == {k \in 1..Len(doc.shapes) : doc.shapes[k].ph \in types}

(***************************************************************************)
(* Properties of parsePptx.                                                *)
(***************************************************************************)

\* C1: when the manifest lists N >= 1 slide references and every one
\* resolves, the import runs until it returns, and it returns exactly N
\* Slide records, the i-th being the record of the i-th reference, whatever
\* the order in which the extraction tasks completed.
AllRefsResolve ==
    /\ Len(ManifestRefs) >= 1
    /\ \A i \in 1..Len(ManifestRefs) : Resolves(ManifestRefs[i])

ManifestOrderKept ==
    AllRefsResolve =>
        /\ pc # "failed"
        /\ pc = "returned" \/ ENABLED Next
        /\ pc = "returned" =>
              /\ Len(result) = Len(ManifestRefs)
              /\ \A i \in 1..Len(ManifestRefs) : result[i] = SlideOfRef(ManifestRefs[i])

\* Three references to three different slides, listed out of file-name
\* order, the tasks having completed out of manifest order.
ManifestOrderKeptWitness ==
    /\ pc = "returned"
    /\ AllRefsResolve
    /\ ManifestRefs = <<"rId3", "rId1", "rId2">>
    /\ outOfOrder
    /\ Len(result) = 3
    /\ result[1] # result[2] /\ result[2] # result[3] /\ result[1] # result[3]

\* C2: when at least one slide reference resolves, the import does not fail
\* and returns the records of the resolvable references, in their manifest
\* order; a task that located its slide part returns a Slide, never null.
SkipsUnresolvable ==
    /\ ResolvableRefs # <<>> =>
          /\ pc # "failed"
          /\ pc = "returned" =>
                /\ Len(result) = Len(ResolvableRefs)
                /\ \A k \in 1..Len(ResolvableRefs) : result[k] = SlideOfRef(ResolvableRefs[k])
    /\ \A i \in 1..Len(tasks) : Extracted(i) => tasks[i].out # Null

\* Three references of which the second has a relationship without target:
\* the first and the third slide are returned, in that order.
SkipsUnresolvableWitness ==
    /\ pc = "returned"
    /\ ManifestRefs = <<"rId1", "rId2", "rId3">>
    /\ PresRelsPresent
    /\ \E k \in 1..Len(zip[PresRelsPath].rels) :
          zip[PresRelsPath].rels[k].Id = "rId2" /\ zip[PresRelsPath].rels[k].Target = <<>>
    /\ result = <<SlideOfRef("rId1"), SlideOfRef("rId3")>>
    /\ result[1] # result[2]

\* C3: with a manifest and no resolvable slide reference the import never
\* returns: it runs until it fails; and no import returns an empty sequence.
NoResolvableRefFails ==
    /\ (ManifestPresent /\ ResolvableRefs = <<>>) =>
          /\ pc # "returned"
          /\ result = <<>>
          /\ pc = "failed" \/ ENABLED Next
    /\ pc = "returned" => Len(result) >= 1

\* Two references, both skipped, with the relationship index present: the
\* import failed for want of slides.
NoResolvableRefFailsWitness ==
    /\ pc = "failed"
    /\ error = ErrNoSlides
    /\ PresRelsPresent
    /\ Len(ManifestRefs) = 2
    /\ ManifestRefs[1] = "rId2" /\ ManifestRefs[2] = ""
    /\ result = <<>>

\* C4: without the manifest part the import fails with the manifest error;
\* no extraction task is ever started and no slide is produced.
NoManifestFailsFirst ==
    ~ManifestPresent =>
        /\ pc \in {"loadAsync", "failed"}
        /\ pc = "failed" => error = ErrNoManifest
        /\ tasks = <<>> /\ values = <<>> /\ result = <<>>

\* The archive has slide parts and a relationship index, but no manifest.
NoManifestFailsFirstWitness ==
    /\ pc = "failed"
    /\ error = ErrNoManifest
    /\ ~ManifestPresent
    /\ PresRelsPresent
    /\ <<"ppt", "slides", "slide1.xml">> \in DOMAIN zip
    /\ tasks = <<>>

\* C5: with the manifest but without its relationship index the import
\* never returns, whatever the manifest holds: it runs until it fails, with
\* the error of the missing index when a reference has a relationship
\* identifier and with the error of no slides otherwise.
NoPresRelsFails ==
    (ManifestPresent /\ ~PresRelsPresent) =>
        /\ pc # "returned"
        /\ result = <<>>
        /\ pc = "failed" \/ ENABLED Next
        /\ pc = "failed" =>
              error = IF \E i \in 1..Len(ManifestRefs) : ManifestRefs[i] # ""
                      THEN ErrNoPresRels ELSE ErrNoSlides

\* A manifest whose only reference has no relationship identifier: no task
\* looks the index up, and the import still fails.
NoPresRelsFailsWitness ==
    /\ pc = "failed"
    /\ ManifestPresent /\ ~PresRelsPresent
    /\ ManifestRefs = <<"">>
    /\ error = ErrNoSlides

(***************************************************************************)
(* Vocabulary of the per-slide properties.                                 *)
(***************************************************************************)
TitleTypes == {"title", "ctrTitle"}

\* The text runs of a shape and of a document, in document order.
TextRunsOfShape(sh) == Flatten(sh.paras)
TextRunsOfDoc(doc) == Flatten([k \in 1..Len(doc.shapes) |-> TextRunsOfShape(doc.shapes[k])])

\* The relationship index of the slide part of task i, and the target of
\* its first notes relationship (<<>> when there is none).
SlideRelsPathOf(i) ==
    LET part == <<"ppt">> \o tasks[i].slidePath
    IN  SubSeq(part, 1, Len(part) - 1) \o <<"_rels", part[Len(part)] \o ".rels">>

NotesTargetOf(i) ==
    LET rs == IF SlideRelsPathOf(i) \in DOMAIN zip THEN zip[SlideRelsPathOf(i)].rels ELSE <<>>
        ks == {k \in 1..Len(rs) : rs[k].Type = RelTypeNotes}
    IN  IF ks = {} THEN <<>> ELSE rs[Least(ks)].Target

\* A relative path resolved against a base directory: a parent-directory
\* marker removes the directory before it.
RECURSIVE ResolvePath(_, _)
ResolvePath(base, rel) ==
    IF rel = <<>> THEN base
    ELSE IF Head(rel) = ".." THEN ResolvePath(SubSeq(base, 1, Len(base) - 1), Tail(rel))
    ELSE ResolvePath(Append(base, Head(rel)), Tail(rel))

SlidesBase == <<"ppt", "slides">>

\* C6 (the claim as stated; the code violates it): when the notes target of
\* a slide begins with a parent-directory marker and the part at the target
\* resolved against ppt/slides/ exists, speakerNotes is the text of that
\* part.
ParentMarkerNotesResolved ==
    \A i \in 1..Len(tasks) :
        (/\ Extracted(i)
         /\ NotesTargetOf(i) # <<>>
         /\ Head(NotesTargetOf(i)) = ".."
         /\ ResolvePath(SlidesBase, NotesTargetOf(i)) \in DOMAIN zip)
        => tasks[i].out[1].speakerNotes =
              JoinText(TextRunsOfDoc(zip[ResolvePath(SlidesBase, NotesTargetOf(i))]))

\* C7 (the claim as stated; the code violates it): the title of a slide
\* with a title or center-title placeholder shape is the concatenation of
\* the text runs of that shape.
TitleIsConcatenatedRuns ==
    \A i \in 1..Len(tasks) :
        (Extracted(i) /\ PlaceholderShapes(SlideXmlOf(i), TitleTypes) # {})
        => tasks[i].out[1].title =
              JoinText(TextRunsOfShape(
                  SlideXmlOf(i).shapes[Least(PlaceholderShapes(SlideXmlOf(i), TitleTypes))]))

\* C8: a located slide part without title or center-title placeholder shape
\* does not make the import fail, and its record has the title
\* "Untitled Slide".
UntitledWithoutTitleShape ==
    /\ LocatedNeverFails
    /\ \A i \in 1..Len(tasks) :
          (Extracted(i) /\ PlaceholderShapes(SlideXmlOf(i), TitleTypes) = {})
          => /\ tasks[i].out # Null
             /\ tasks[i].out[1].title = "Untitled Slide"
             /\ (pc = "returned" /\ Len(tasks) = 1) => result[1].title = "Untitled Slide"

\* A returned slide whose part has shapes with text, none of them a title.
UntitledWithoutTitleShapeWitness ==
    /\ pc = "returned"
    /\ Len(tasks) = 1 /\ Extracted(1)
    /\ Len(SlideXmlOf(1).shapes) = 2
    /\ PlaceholderShapes(SlideXmlOf(1), TitleTypes) = {}
    /\ TextRunsOfDoc(SlideXmlOf(1)) # <<>>
    /\ result[1].title = "Untitled Slide"

\* C9 (the claim as stated; the code violates it): content is one string
\* per paragraph of the body placeholder shape, each the concatenation of
\* the paragraph's text runs, and the empty sequence without such a shape.
ContentIsBodyParagraphs ==
    \A i \in 1..Len(tasks) :
        Extracted(i) =>
            LET body == PlaceholderShapes(SlideXmlOf(i), {"body"})
                ps == IF body = {} THEN <<>> ELSE SlideXmlOf(i).shapes[Least(body)].paras
            IN  tasks[i].out[1].content = [k \in 1..Len(ps) |-> JoinText(ps[k])]

\* C10: a located slide part is returned with empty speakerNotes, and the
\* import does not fail, when the slide has no relationship index, no notes
\* relationship (or one without target), no notes part at the path the
\* importer derives from the target, or a notes part without text runs.
NotesAbsent(i) ==
    \/ SlideRelsPathOf(i) \notin DOMAIN zip
    \/ NotesTargetOf(i) = <<>>
    \/ NotesPartPath(NotesTargetOf(i)) \notin DOMAIN zip
    \/ TextRunsOfDoc(zip[NotesPartPath(NotesTargetOf(i))]) = <<>>

FirstSlideParts ==
    {SlidePart("slide1.xml"), SlideRelsPart("slide1.xml"), SlidePart("notes1.xml")}

Parsers == [keepsContent : BOOLEAN, illFormed : SUBSET FirstSlideParts]

InitMalformed ==
    /\ \E ids \in SeqsUpTo({"rId1", "rId3"}, MaxRefs), defect \in {"none", "noPresRels"} :
          Called(DeckArchive(ids, defect))
    /\ parser \in Parsers
    /\ second = NotCalled
    /\ NoUi

SpecMalformed == InitMalformed /\ [][Next]_vars

IllFormed(path) == path \in parser.illFormed

\* C11 (the claim as stated; the code violates it): a located slide part,
\* slide relationship index or notes part that is not well-formed XML never
\* makes the import fail; the slide is returned with the default value of
\* the affected field (title "Untitled Slide" and no content for the slide
\* part, empty speakerNotes for the index and the notes part), and every
\* resolvable reference still gets its slide.
MalformedPartGivesDefault ==
    /\ LocatedNeverFails
    /\ pc = "returned" => Len(result) = Len(ResolvableRefs)
    /\ \A i \in 1..Len(tasks) :
          Extracted(i) =>
              /\ tasks[i].out # Null
              /\ IllFormed(<<"ppt">> \o tasks[i].slidePath) =>
                    /\ tasks[i].out[1].title = "Untitled Slide"
                    /\ tasks[i].out[1].content = <<>>
              /\ IllFormed(SlideRelsPathOf(i)) => tasks[i].out[1].speakerNotes = ""
              /\ (NotesTargetOf(i) # <<>> /\ IllFormed(NotesPartPath(NotesTargetOf(i))))
                    => tasks[i].out[1].speakerNotes = ""

(***************************************************************************)
(* Two calls of parsePptx on the same file.  The parser, the archive       *)
(* object, the promises and the result are locals of a call (lines 43-96); *)
(* the calls share the file, which neither writes, so both read the same   *)
(* parts.  The steps of the two calls interleave at their awaits.          *)
(***************************************************************************)
Awaiting == {"readPresRels", "readSlide", "readSlideRels", "readNotes"}

\* A task resumes from its await and runs to its next await or its return.
TaskStep(z, t) ==
    CASE t.pc = "readPresRels" -> AfterPresRels(z, t)
      [] t.pc = "readSlide" -> AfterSlide(z, t)
      [] t.pc = "readSlideRels" -> AfterSlideRels(z, t)
      [] t.pc = "readNotes" -> AfterNotes(z, t)

\* lines 44-48 of the second call
SecondOpenManifest ==
    /\ second.pc = "loadAsync"
    /\ second' = IF ManifestMissing(zip)
                 THEN [second EXCEPT !.pc = "failed", !.error = ErrNoManifest]
                 ELSE [second EXCEPT !.pc = "readManifest"]
    /\ UNCHANGED <<importer, parser, ui>>

\* lines 48-96 of the second call
SecondIssueTasks ==
    /\ second.pc = "readManifest"
    /\ LET ids == SlideIdNodes(File(zip, ManifestPath))
           ts == [i \in 1..Len(ids) |-> StartTask(zip, ids[i])]
       IN  second' = [second EXCEPT
               !.pc = "awaitAll",
               !.tasks = ts,
               !.values = ResolveFulfilled([i \in 1..Len(ids) |-> PendingSlot], ts, 1)]
    /\ UNCHANGED <<importer, parser, ui>>

\* lines 58-93 of the second call: task i resumes.
SecondResume(i) ==
    /\ second.tasks[i].pc \in Awaiting
    /\ LET t == TaskStep(zip, second.tasks[i])
       IN  second' = [second EXCEPT
               !.tasks[i] = t,
               !.values = IF t.pc = "fulfilled"
                          THEN PromiseAllResolveElement(@, i, t.out) ELSE @,
               !.outOfOrder = @ \/ (/\ t.pc = "fulfilled"
                                    /\ \E j \in 1..(i - 1) : ~second.values[j].done)]
    /\ UNCHANGED <<importer, parser, ui>>

\* lines 96-98 of the second call
SecondPromiseAllFulfilled ==
    /\ second.pc = "awaitAll"
    /\ \A i \in 1..Len(second.values) : second.values[i].done
    /\ LET parsedSlides == FilterNotNull(second.values)
       IN  second' = IF NoSlidesParsed(parsedSlides)
                     THEN [second EXCEPT !.pc = "failed", !.error = ErrNoSlides]
                     ELSE [second EXCEPT !.pc = "returned", !.result = parsedSlides]
    /\ UNCHANGED <<importer, parser, ui>>

\* line 96 of the second call: a promise is rejected.
SecondPromiseAllRejected ==
    /\ second.pc = "awaitAll"
    /\ \E i \in 1..Len(second.tasks) : second.tasks[i].pc = "rejected"
    /\ second' = [second EXCEPT !.pc = "failed", !.error = ErrNoPresRels]
    /\ UNCHANGED <<importer, parser, ui>>

TwiceArchives ==
    {DeckArchive(ids, defect) : ids \in SeqsUpTo({"rId1", "rId2"}, MaxTwiceRefs),
                                defect \in Defects}

InitTwice ==
    /\ \E z \in TwiceArchives : Called(z)
    /\ parser = WellFormed
    /\ second = [NotCalled EXCEPT !.pc = "loadAsync"]
    /\ NoUi

NextTwice ==
    \/ Next
    \/ SecondOpenManifest
    \/ SecondIssueTasks
    \/ \E i \in 1..Len(second.tasks) : SecondResume(i)
    \/ SecondPromiseAllFulfilled
    \/ SecondPromiseAllRejected

SpecTwice == InitTwice /\ [][NextTwice]_vars

SecondCompleted == second.pc \in {"returned", "failed"}

\* A call that has not ended has a step to take: it is before Promise.all,
\* or a task of it can resume, or Promise.all can settle.
CanStep(callPc, callTasks, callValues) ==
    \/ callPc \in {"loadAsync", "readManifest"}
    \/ /\ callPc = "awaitAll"
       /\ \/ \E i \in 1..Len(callTasks) : callTasks[i].pc \in Awaiting \cup {"rejected"}
          \/ \A i \in 1..Len(callValues) : callValues[i].done

\* C12: two imports of the same archive, their steps interleaved in any
\* order, both run until they end, and they end alike: both return, with
\* equal Slide sequences, or both fail, with the same error; the tasks of
\* one call end as the tasks of the other.
ImportTwiceEqual ==
    /\ (Completed /\ SecondCompleted) =>
          /\ pc = second.pc
          /\ result = second.result
          /\ error = second.error
          /\ pc = "returned" => tasks = second.tasks
    /\ Completed \/ CanStep(pc, tasks, values)
    /\ SecondCompleted \/ CanStep(second.pc, second.tasks, second.values)

\* Both calls returned two different slides, the tasks of the first call
\* having completed out of manifest order and those of the second in order.
ImportTwiceEqualWitness ==
    /\ pc = "returned" /\ second.pc = "returned"
    /\ outOfOrder /\ ~second.outOfOrder
    /\ Len(result) = 2 /\ result[1] # result[2]
    /\ second.result = result

(***************************************************************************)
(* The slide viewer: src/components/SlideViewer.tsx.  The deck is the      *)
(* slides prop, which is the state of App (app.slides); onSlidesChange is  *)
(* its setter.  currentSlideIndex counts from 0 as in the code.  A handler *)
(* and the effect of lines 23-30 that its state change triggers are one    *)
(* action.  viewer.last is a history field: what the last handler was      *)
(* given and what it produced.                                             *)
(***************************************************************************)
\* Array.prototype.join(sep)
RECURSIVE JoinWithTrailing(_, _)
JoinWithTrailing(ts, sep) ==
    IF ts = <<>> THEN "" ELSE Head(ts) \o sep \o JoinWithTrailing(Tail(ts), sep)

RECURSIVE JoinWith(_, _)
JoinWith(ts, sep) ==
    IF ts = <<>> THEN ""
    ELSE IF Len(ts) = 1 THEN Head(ts)
    ELSE Head(ts) \o sep \o JoinWith(Tail(ts), sep)

CurrentSlide(v, slides) == slides[v.currentSlideIndex + 1]
HasCurrentSlide(v, slides) == v.currentSlideIndex + 1 \in 1..Len(slides)

\* lines 23-30: the effect that follows a change of the index or the deck
SyncEdits(v, slides) ==
    IF HasCurrentSlide(v, slides)
    THEN [v EXCEPT !.editedTitle = CurrentSlide(v, slides).title,
                   !.editedNotes = CurrentSlide(v, slides).speakerNotes,
                   !.isEditing = FALSE,
                   !.imageError = Null]
    ELSE v

\* lines 14-19 and the effect after the first render
ViewerMounted(slides) ==
    SyncEdits([mounted |-> TRUE, currentSlideIndex |-> 0, isEditing |-> FALSE,
               editedTitle |-> "", editedNotes |-> "", isGeneratingImage |-> FALSE,
               imageError |-> Null, last |-> Null], slides)

\* Faulty variant of MapEdited: the slide is changed in place and the deck
\* itself is handed back.
MapEditedInPlace(slides, index, title, notes) ==
    LET newSlides == [i \in 1..Len(slides) |->
                         IF i - 1 = index
                         THEN [slides[i] EXCEPT !.title = title, !.speakerNotes = notes]
                         ELSE slides[i]]
    IN  [newSlides |-> newSlides, slides |-> newSlides]

\* lines 46-51: slides.map makes a new array and the spread a new record,
\* so the array passed in and its records are as before (slides).
MapEdited(slides, index, title, notes) ==
    LET newSlides == [i \in 1..Len(slides) |->
                         IF i - 1 = index
                         THEN [slides[i] EXCEPT !.title = title, !.speakerNotes = notes]
                         ELSE slides[i]]
    IN  [newSlides |-> newSlides, slides |-> slides]

\* lines 63-68
MarkdownOfSlide(slide) ==
    LET title == "## " \o slide.title
        content == JoinWith([k \in 1..Len(slide.content) |-> "- " \o slide.content[k]], "\n")
        speakerNotes == "### Speaker Notes\n" \o slide.speakerNotes
    IN  title \o "\n\n" \o content \o "\n\n" \o speakerNotes

MarkdownContent(slides) ==
    JoinWith([k \in 1..Len(slides) |-> MarkdownOfSlide(slides[k])], "\n\n---\n\n")

\* lines 102-104: the viewer renders its controls when it has a current slide.
ViewerShown == viewer.mounted /\ HasCurrentSlide(viewer, app.slides)

ViewerFrame == UNCHANGED <<importer, parser, second, player, voice, inFlight>>

\* lines 33-35
goToPrevious ==
    /\ ViewerShown
    /\ LET index == IF viewer.currentSlideIndex = 0 THEN Len(app.slides) - 1
                    ELSE viewer.currentSlideIndex - 1
           v == [viewer EXCEPT !.currentSlideIndex = index, !.last = Null]
       IN  viewer' = IF index # viewer.currentSlideIndex THEN SyncEdits(v, app.slides) ELSE v
    /\ UNCHANGED app
    /\ ViewerFrame

\* lines 37-39
goToNext ==
    /\ ViewerShown
    /\ LET index == IF viewer.currentSlideIndex = Len(app.slides) - 1 THEN 0
                    ELSE viewer.currentSlideIndex + 1
           v == [viewer EXCEPT !.currentSlideIndex = index, !.last = Null]
       IN  viewer' = IF index # viewer.currentSlideIndex THEN SyncEdits(v, app.slides) ELSE v
    /\ UNCHANGED app
    /\ ViewerFrame

\* lines 41-43
handleEdit ==
    /\ ViewerShown /\ ~viewer.isEditing
    /\ viewer' = [viewer EXCEPT !.isEditing = TRUE, !.last = Null]
    /\ UNCHANGED app
    /\ ViewerFrame

\* line 140: the title input
TypeTitle(text) ==
    /\ ViewerShown /\ viewer.isEditing
    /\ viewer' = [viewer EXCEPT !.editedTitle = text, !.last = Null]
    /\ UNCHANGED app
    /\ ViewerFrame

\* line 181: the notes editor
TypeNotes(text) ==
    /\ ViewerShown /\ viewer.isEditing
    /\ viewer' = [viewer EXCEPT !.editedNotes = text, !.last = Null]
    /\ UNCHANGED app
    /\ ViewerFrame

\* lines 45-54, and the effect for the new deck
handleSave ==
    /\ ViewerShown /\ viewer.isEditing
    /\ LET m == MapEdited(app.slides, viewer.currentSlideIndex,
                          viewer.editedTitle, viewer.editedNotes)
           v == [viewer EXCEPT
                    !.isEditing = FALSE,
                    !.last = <<[handler |-> "handleSave",
                                before |-> app.slides,
                                after |-> m.slides,
                                index |-> viewer.currentSlideIndex,
                                editedTitle |-> viewer.editedTitle,
                                editedNotes |-> viewer.editedNotes]>>]
       IN  /\ app' = [app EXCEPT !.slides = m.newSlides]
           /\ viewer' = SyncEdits(v, m.newSlides)
    /\ ViewerFrame

\* lines 56-60
handleCancel ==
    /\ ViewerShown /\ viewer.isEditing
    /\ viewer' = [viewer EXCEPT !.editedTitle = CurrentSlide(viewer, app.slides).title,
                                !.editedNotes = CurrentSlide(viewer, app.slides).speakerNotes,
                                !.isEditing = FALSE,
                                !.last = Null]
    /\ UNCHANGED app
    /\ ViewerFrame

\* lines 62-79
handleDownload ==
    /\ ViewerShown
    /\ viewer' = [viewer EXCEPT
                     !.last = <<[handler |-> "handleDownload",
                                 presentation |-> MarkdownContent(app.slides)]>>]
    /\ UNCHANGED app
    /\ ViewerFrame

\* The decks shown and the texts typed.
WithImage(slide, imageUrl) ==
    [f \in DOMAIN slide \cup {"imageUrl"} |-> IF f = "imageUrl" THEN imageUrl ELSE slide[f]]

ViewerSlides ==
    {WithImage(SlideRecord("Rome", <<"Founding", "Republic and Empire">>, "Welcome everyone"),
               "data:image/png;base64,iVBOR"),
     SlideRecord("Untitled Slide", <<>>, "")}

ViewerDecks == SeqsUpTo(ViewerSlides, MaxSlides) \ {<<>>}
TitleInputs == {"", "Carthage"}
NotesInputs == {"Pause here"}

InitViewer ==
    /\ NoImport
    /\ parser = WellFormed
    /\ second = NotCalled
    /\ \E slides \in ViewerDecks :
          /\ app = [AppInitial EXCEPT !.slides = slides]
          /\ viewer = ViewerMounted(slides)
    /\ player = Unmounted
    /\ voice = Unmounted
    /\ inFlight = {}

NextViewer ==
    \/ goToPrevious
    \/ goToNext
    \/ handleEdit
    \/ \E text \in TitleInputs : TypeTitle(text)
    \/ \E text \in NotesInputs : TypeNotes(text)
    \/ handleSave
    \/ handleCancel
    \/ handleDownload

SpecViewer == InitViewer /\ [][NextViewer]_vars

(***************************************************************************)
(* Properties of the slide viewer.                                         *)
(***************************************************************************)
LastHandler(name) == viewer.last # Null /\ viewer.last[1].handler = name

\* C13: a save hands the owner a deck of the same length in which the slide
\* at the current index has the edited title and speakerNotes, its previous
\* content and its previous imageUrl (or none, as before), and in which
\* every other slide is the slide of the previous deck; the previous deck is
\* as it was.
SaveReplacesCurrentSlide ==
    LastHandler("handleSave") =>
        LET h == viewer.last[1]
            k == h.index + 1
        IN  /\ Len(app.slides) = Len(h.before)
            /\ app.slides[k].title = h.editedTitle
            /\ app.slides[k].speakerNotes = h.editedNotes
            /\ app.slides[k].content = h.before[k].content
            /\ DOMAIN app.slides[k] = DOMAIN h.before[k]
            /\ "imageUrl" \in DOMAIN h.before[k] =>
                  app.slides[k].imageUrl = h.before[k].imageUrl
            /\ \A j \in 1..Len(h.before) : j # k => app.slides[j] = h.before[j]
            /\ h.after = h.before

\* The second of two slides, which has an image, saved with another title
\* and other notes.
SaveReplacesCurrentSlideWitness ==
    /\ LastHandler("handleSave")
    /\ Len(app.slides) = 2
    /\ viewer.last[1].index = 1
    /\ "imageUrl" \in DOMAIN viewer.last[1].before[2]
    /\ app.slides[2].title # viewer.last[1].before[2].title
    /\ app.slides[2].speakerNotes # viewer.last[1].before[2].speakerNotes
    /\ app.slides[1] # app.slides[2]

\* The lines of a text: the pieces between its line feeds.
LinesOf(s) ==
    LET feeds == {i \in 1..Len(s) : SubSeq(s, i, i) = "\n"}
        n == Cardinality(feeds)
        Feed(k) == IF k = 0 THEN 0
                   ELSE IF k = n + 1 THEN Len(s) + 1
                   ELSE CHOOSE p \in feeds : Cardinality({q \in feeds : q < p}) = k - 1
    IN  [k \in 1..(n + 1) |-> SubSeq(s, Feed(k - 1) + 1, Feed(k) - 1)]

\* The lines of a slide block: the heading, the bullets (one empty line
\* when there is none) and the notes section, with an empty line between.
BlockLines(slide) ==
    <<"## " \o slide.title, "">>
    \o (IF slide.content = <<>> THEN <<"">>
        ELSE [k \in 1..Len(slide.content) |-> "- " \o slide.content[k]])
    \o <<"", "### Speaker Notes">>
    \o LinesOf(slide.speakerNotes)

RuleLines == <<"", "---", "">>

RECURSIVE DeckLines(_)
DeckLines(slides) ==
    IF Len(slides) = 1 THEN BlockLines(Head(slides))
    ELSE BlockLines(Head(slides)) \o RuleLines \o DeckLines(Tail(slides))

\* C14: the exported markdown of a deck of N >= 1 slides is, line by line,
\* the blocks of the slides in deck order (heading with the title, one
\* bullet line per content entry, notes section with the speakerNotes), a
\* horizontal rule between two consecutive blocks: N - 1 rules, none first
\* and none last.
ExportIsBlocksBetweenRules ==
    LastHandler("handleDownload") =>
        LET lines == LinesOf(viewer.last[1].presentation)
            rules == {i \in 1..Len(lines) : lines[i] = "---"}
        IN  /\ lines = DeckLines(app.slides)
            /\ Cardinality(rules) = Len(app.slides) - 1
            /\ 1 \notin rules /\ Len(lines) \notin rules
            /\ Cardinality({i \in 1..Len(lines) : lines[i] = "### Speaker Notes"})
                  = Len(app.slides)

\* A deck of two slides exported: one without content and one with two
\* content entries and an edited title.
ExportIsBlocksBetweenRulesWitness ==
    /\ LastHandler("handleDownload")
    /\ Len(app.slides) = 2
    /\ app.slides[1].content = <<>>
    /\ Len(app.slides[2].content) = 2
    /\ app.slides[2].title = "Carthage"

(***************************************************************************)
(* The App component: src/App.tsx, lines 12-138, with the form of          *)
(* src/components/TopicInputForm.tsx and the image generation of the slide *)
(* viewer.  app.request and app.before are history fields: the handler     *)
(* started last, and the deck that was shown when it started.  A handler   *)
(* runs to its await in one action and from its await to its end in        *)
(* another; between the two, parsePptx takes the steps of Next.            *)
(***************************************************************************)
Greatest(S) == CHOOSE k \in S : \A j \in S : k >= j

\* String.prototype.trim, for text whose white space is spaces
Trim(s) ==
    LET ks == {i \in 1..Len(s) : SubSeq(s, i, i) # " "}
    IN  IF ks = {} THEN "" ELSE SubSeq(s, Least(ks), Greatest(ks))

FileName == "deck.pptx"
ImageUrl == "data:image/jpeg;base64,/9j/4AAQ"
ErrGenerateSlides ==
    "Failed to generate presentation slides. The AI model may be temporarily unavailable or the topic could not be processed."
ErrGenerateImage ==
    "Failed to generate image. The model may be unavailable or the prompt was rejected."

\* renderContent, lines 119-131: what App shows is the slide viewer.
ShowsViewer(a) ==
    ~a.isLoading /\ a.error = Null /\ Len(a.slides) > 0 /\ a.viewMode = "EDITOR"

\* The slide viewer v after App has rendered with the state a: it is
\* mounted, kept (its effect following a new deck) or unmounted.
RenderViewer(a, v, newDeck) ==
    IF ~ShowsViewer(a) THEN Unmounted
    ELSE IF ~v.mounted THEN ViewerMounted(a.slides)
    ELSE IF newDeck THEN SyncEdits(v, a.slides)
    ELSE v

\* The calls in flight after that render: the component that made them is
\* gone when the viewer is unmounted.
RequestsAfterRender(a, requests) ==
    IF viewer.mounted /\ ~ShowsViewer(a)
    THEN {[r EXCEPT !.ownerMounted = FALSE] : r \in requests}
    ELSE requests

AppFrame == UNCHANGED <<parser, second, player, voice>>

\* lines 101-109, up to the await of parsePptx (which runs to line 44)
handleImportSlides(file) ==
    /\ ~app.isLoading
    /\ LET a == [app EXCEPT !.loadingMessage = "Parsing your .pptx file...",
                            !.isLoading = TRUE,
                            !.error = Null,
                            !.slides = <<>>,
                            !.topic = "Imported from " \o FileName,
                            !.request = "handleImportSlides",
                            !.before = app.slides]
       IN  /\ app' = a
           /\ viewer' = RenderViewer(a, viewer, TRUE)
           /\ inFlight' = RequestsAfterRender(a, inFlight)
    /\ zip' = file
    /\ pc' = "loadAsync"
    /\ tasks' = <<>>
    /\ values' = <<>>
    /\ result' = <<>>
    /\ error' = ""
    /\ outOfOrder' = FALSE
    /\ AppFrame

\* lines 109-116: parsePptx has returned or thrown.
ImportSettled ==
    /\ app.isLoading /\ app.request = "handleImportSlides"
    /\ Completed
    /\ LET a == IF pc = "returned"
                THEN [app EXCEPT !.slides = result, !.isLoading = FALSE]
                ELSE [app EXCEPT !.error = <<error>>, !.isLoading = FALSE]
       IN  /\ app' = a
           /\ viewer' = RenderViewer(a, viewer, pc = "returned")
           /\ inFlight' = RequestsAfterRender(a, inFlight)
    /\ UNCHANGED importer
    /\ AppFrame

\* lines 20-32, submitted by the form (TopicInputForm.tsx, lines 13-16 and
\* 43: the button is disabled while loading and for a blank topic)
handleGenerateSlides(newTopic) ==
    /\ ~app.isLoading
    /\ Trim(newTopic) # ""
    /\ LET a == [app EXCEPT
                    !.loadingMessage = "Generating your presentation... This may take a moment.",
                    !.isLoading = TRUE,
                    !.error = Null,
                    !.slides = <<>>,
                    !.topic = newTopic,
                    !.request = "handleGenerateSlides",
                    !.before = app.slides]
       IN  /\ app' = a
           /\ viewer' = RenderViewer(a, viewer, TRUE)
           /\ inFlight' = RequestsAfterRender(a, inFlight)
    /\ UNCHANGED importer
    /\ AppFrame

\* lines 32-39: generateSlidesContent has returned a deck or thrown.
GenerateSettled(generatedSlides) ==
    /\ app.isLoading /\ app.request = "handleGenerateSlides"
    /\ LET a == IF generatedSlides # <<>>
                THEN [app EXCEPT !.slides = generatedSlides, !.isLoading = FALSE]
                ELSE [app EXCEPT !.error = <<ErrGenerateSlides>>, !.isLoading = FALSE]
       IN  /\ app' = a
           /\ viewer' = RenderViewer(a, viewer, generatedSlides # <<>>)
           /\ inFlight' = RequestsAfterRender(a, inFlight)
    /\ UNCHANGED importer
    /\ AppFrame

\* SlideViewer.tsx, lines 81-86, up to the await of generateImage; the
\* button is there when the slide has no image or the last call failed
\* (lines 112-131).
handleGenerateImage ==
    /\ ViewerShown /\ ~viewer.isGeneratingImage
    /\ viewer.imageError # Null \/ "imageUrl" \notin DOMAIN CurrentSlide(viewer, app.slides)
    /\ Cardinality(inFlight) < MaxImageRequests
    /\ viewer' = [viewer EXCEPT !.isGeneratingImage = TRUE, !.imageError = Null,
                                !.last = Null]
    /\ inFlight' = inFlight \cup {[slides |-> app.slides,
                                   index |-> viewer.currentSlideIndex,
                                   ownerMounted |-> TRUE]}
    /\ UNCHANGED <<app, importer>>
    /\ AppFrame

\* SlideViewer.tsx, lines 86-98: generateImage has returned (fulfilled) or
\* thrown.  slides and currentSlideIndex are those of the render in which
\* the button was clicked; onSlidesChange is the setter of App, which works
\* whether or not the viewer is still mounted; the viewer's own setters do
\* nothing once it is unmounted.
ImageSettled(r, fulfilled) ==
    /\ r \in inFlight
    /\ LET newSlides == [i \in 1..Len(r.slides) |->
                            IF i - 1 = r.index THEN WithImage(r.slides[i], ImageUrl)
                            ELSE r.slides[i]]
           a == IF fulfilled THEN [app EXCEPT !.slides = newSlides] ELSE app
           v == IF ~r.ownerMounted THEN viewer
                ELSE IF fulfilled THEN [viewer EXCEPT !.isGeneratingImage = FALSE, !.last = Null]
                ELSE [viewer EXCEPT !.imageError = <<ErrGenerateImage>>,
                                    !.isGeneratingImage = FALSE, !.last = Null]
       IN  /\ app' = a
           /\ viewer' = RenderViewer(a, v, fulfilled)
           /\ inFlight' = RequestsAfterRender(a, inFlight \ {r})
    /\ UNCHANGED importer
    /\ AppFrame

\* The files chosen, the topics typed and what the model returns (the empty
\* sequence stands for a failed generation).
AppFiles == {DeckArchive(ids, defect) : ids \in {<<"rId1">>, <<"rId2", "rId1">>},
                                        defect \in Defects}
Topics == {"", "  ", " Ancient Rome"}
GeneratedDecks ==
    {<<>>,
     <<SlideRecord("Rome", <<"Founding", "Republic and Empire">>, "Welcome everyone"),
       SlideRecord("Legions", <<"Marius", "Caesar">>, "Speak slowly")>>}

InitApp ==
    /\ NoImport
    /\ parser = WellFormed
    /\ second = NotCalled
    /\ NoUi

NextApp ==
    \/ \E file \in AppFiles : handleImportSlides(file)
    \/ Next
    \/ ImportSettled
    \/ \E newTopic \in Topics : handleGenerateSlides(newTopic)
    \/ \E generatedSlides \in GeneratedDecks : GenerateSettled(generatedSlides)
    \/ goToNext
    \/ handleGenerateImage
    \/ \E r \in inFlight, fulfilled \in BOOLEAN : ImageSettled(r, fulfilled)

SpecApp == InitApp /\ [][NextApp]_vars

\* An import is leaving the loading state.
ImportLeavesLoading ==
    app.isLoading /\ ~app'.isLoading /\ app.request = "handleImportSlides"

\* C15 (the claim as stated; the code violates it): an import that is
\* loading can always go on until it leaves the loading state; when it
\* leaves it after a fatal failure the app holds an error message, an empty
\* deck and isLoading false, and when it leaves it after a success the app
\* holds the imported, non-empty deck and no error.
ImportEndsClean ==
    /\ [](app.isLoading /\ app.request = "handleImportSlides"
             => Completed \/ CanStep(pc, tasks, values))
    /\ [][ImportLeavesLoading =>
             /\ pc = "failed" => app'.error # Null /\ app'.slides = <<>>
             /\ pc = "returned" =>
                   app'.slides = result /\ app'.slides # <<>> /\ app'.error = Null]_vars


(***************************************************************************)
(* The video player and its voice commands: src/components/VideoPlayer.tsx *)
(* and src/hooks/useVoiceCommands.ts.  A callback sees the state of the    *)
(* render that created it: Closure is that state.  The handlers of the     *)
(* controls and of the narration are those of the latest render; the       *)
(* handlers of a recognition session are those startListening gave it.     *)
(* player.timers are the pending setTimeout calls, which all have the same *)
(* delay and so fire in the order they were made.  voice.executed is a     *)
(* history field: the keys whose action the last result ran.               *)
(***************************************************************************)
UpperCase == "ABCDEFGHIJKLMNOPQRSTUVWXYZ"
LowerCase == "abcdefghijklmnopqrstuvwxyz"

\* String.prototype.toLowerCase, for text in the basic Latin alphabet
LowerChar(c) ==
    LET ks == {i \in 1..Len(UpperCase) : SubSeq(UpperCase, i, i) = c}
    IN  IF ks = {} THEN c ELSE SubSeq(LowerCase, Least(ks), Least(ks))

RECURSIVE ToLowerCase(_)
ToLowerCase(s) ==
    IF s = "" THEN ""
    ELSE LowerChar(SubSeq(s, 1, 1)) \o ToLowerCase(SubSeq(s, 2, Len(s)))

\* String.prototype.includes
Includes(s, key) ==
    \E i \in 1..(Len(s) - Len(key) + 1) : SubSeq(s, i, i + Len(key) - 1) = key

\* useVoiceCommands.ts lines 40-45, for the results from event.resultIndex on
RECURSIVE FinalTranscript(_)
FinalTranscript(results) ==
    IF results = <<>> THEN ""
    ELSE (IF Head(results).isFinal THEN Head(results).transcript ELSE "")
         \o FinalTranscript(Tail(results))

\* Object.keys(commands): the keys of VideoPlayer.tsx lines 76-92 in
\* insertion order
CommandKeys ==
    <<"play", "start", "pause", "hold", "stop", "end", "next", "next slide",
      "previous", "back", "previous slide", "open settings", "show settings",
      "close settings", "hide settings", "replay", "restart">>

\* Faulty variant of Dispatch: the loop without its break.
RECURSIVE DispatchWithoutBreak(_, _)
DispatchWithoutBreak(processedTranscript, commandKeys) ==
    IF commandKeys = <<>> THEN <<>>
    ELSE (IF Includes(processedTranscript, Head(commandKeys))
          THEN <<Head(commandKeys)>> ELSE <<>>)
         \o DispatchWithoutBreak(processedTranscript, Tail(commandKeys))

\* The loop of useVoiceCommands.ts lines 52-57: the keys whose action it calls
RECURSIVE Dispatch(_, _)
Dispatch(processedTranscript, commandKeys) ==
    IF commandKeys = <<>> THEN <<>>
    ELSE IF Includes(processedTranscript, Head(commandKeys))
         THEN <<Head(commandKeys)>>
         ELSE Dispatch(processedTranscript, Tail(commandKeys))

\* useState of VideoPlayer.tsx lines 17-32; indices count from 0 as in the code.
PlayerMounted(slides) ==
    [mounted |-> TRUE, currentSlideIndex |-> 0, isPlaying |-> TRUE,
     isFinished |-> FALSE, isSettingsOpen |-> FALSE, animationState |-> "idle",
     slideContent |-> slides[1], isGeneratingImage |-> FALSE, imageError |-> Null,
     timers |-> <<>>]

\* useState of useVoiceCommands.ts lines 32-35; no recognition session yet.
VoiceMounted ==
    [mounted |-> TRUE, isListening |-> FALSE, transcript |-> "", error |-> Null,
     session |-> "none", bound |-> Null, executed |-> <<>>]

\* What the callbacks created by a render of the player p, with the hook
\* state v and the prop slides, read from that render.
Closure(p, v, slides) ==
    [currentSlideIndex |-> p.currentSlideIndex, isFinished |-> p.isFinished,
     isTransitioning |-> p.animationState # "idle", isListening |-> v.isListening,
     slides |-> slides]

\* handleSlideChange of the render c, lines 36-51, up to the first setTimeout
HandleSlideChange(p, c, nextIndex) ==
    IF c.isTransitioning \/ nextIndex < 0 \/ nextIndex >= Len(c.slides) THEN p
    ELSE [p EXCEPT !.imageError = Null,
                   !.animationState = "exiting",
                   !.timers = Append(@, [kind |-> "exit", nextIndex |-> nextIndex,
                                         slide |-> c.slides[nextIndex + 1]])]

\* advanceSlide of the render c, lines 53-60
AdvanceSlide(p, c) ==
    IF c.currentSlideIndex < Len(c.slides) - 1
    THEN HandleSlideChange(p, c, c.currentSlideIndex + 1)
    ELSE [p EXCEPT !.isPlaying = FALSE, !.isFinished = TRUE]

\* handleReplay of the render c, lines 67-73
HandleReplay(p, c) ==
    [p EXCEPT !.isFinished = FALSE, !.currentSlideIndex = 0,
              !.slideContent = c.slides[1], !.isPlaying = TRUE,
              !.animationState = "idle"]

\* commands[key]() of the render c, lines 76-92; handleStop closes the
\* player, which unmounts it.
Command(key, c, p) ==
    CASE key \in {"play", "start"} -> [p EXCEPT !.isPlaying = TRUE]
      [] key \in {"pause", "hold"} -> [p EXCEPT !.isPlaying = FALSE]
      [] key \in {"stop", "end"} -> [p EXCEPT !.mounted = FALSE]
      [] key \in {"next", "next slide"} ->
            HandleSlideChange(p, c, c.currentSlideIndex + 1)
      [] key \in {"previous", "back", "previous slide"} ->
            HandleSlideChange(p, c, c.currentSlideIndex - 1)
      [] key \in {"open settings", "show settings"} -> [p EXCEPT !.isSettingsOpen = TRUE]
      [] key \in {"close settings", "hide settings"} -> [p EXCEPT !.isSettingsOpen = FALSE]
      [] key \in {"replay", "restart"} -> IF c.isFinished THEN HandleReplay(p, c) ELSE p

\* The actions of the keys the dispatcher calls, one after the other
RECURSIVE RunCommands(_, _, _)
RunCommands(keys, c, p) ==
    IF keys = <<>> THEN p
    ELSE RunCommands(Tail(keys), c, Command(Head(keys), c, p))

\* stopListening, useVoiceCommands.ts lines 103-108
StopListening(v) ==
    [v EXCEPT !.session = IF @ = "active" THEN "ended" ELSE @,
              !.isListening = FALSE]

\* The render after a handler left the player as p and the hook as v: a
\* closed player is unmounted (its cleanup stops listening, lines 132-137,
\* and its timers find no component) and App shows the slide viewer.
PlayerRenders(p, v) ==
    /\ player' = IF p.mounted THEN p ELSE Unmounted
    /\ voice' = IF p.mounted THEN v ELSE [StopListening(v) EXCEPT !.mounted = FALSE]
    /\ LET a == IF p.mounted THEN app ELSE [app EXCEPT !.viewMode = "EDITOR"]
       IN  /\ app' = a
           /\ viewer' = RenderViewer(a, viewer, FALSE)
    /\ UNCHANGED <<importer, parser, second, inFlight>>

\* The 'end' or 'error' event of the utterance, lines 101-105: the effect of
\* lines 97-118 spoke it under the condition of line 98 and removes its
\* listeners as soon as the render changes, so advanceSlide is that of the
\* latest render.
NarrationEnd ==
    /\ player.mounted
    /\ player.isPlaying /\ player.animationState = "idle"
    /\ ~player.isFinished /\ ~player.isGeneratingImage
    /\ LET p == AdvanceSlide(player, Closure(player, voice, app.slides))
       IN  Len(p.timers) <= MaxTimers /\ PlayerRenders(p, voice)

\* The first setTimeout callback of handleSlideChange, lines 42-50
ExitTimeout ==
    /\ player.mounted
    /\ player.timers # <<>> /\ Head(player.timers).kind = "exit"
    /\ LET t == Head(player.timers)
       IN  PlayerRenders([player EXCEPT !.currentSlideIndex = t.nextIndex,
                                        !.slideContent = t.slide,
                                        !.animationState = "entering",
                                        !.timers = Append(Tail(@), [t EXCEPT !.kind = "enter"])],
                         voice)

\* The second setTimeout callback, lines 47-49
EnterTimeout ==
    /\ player.mounted
    /\ player.timers # <<>> /\ Head(player.timers).kind = "enter"
    /\ PlayerRenders([player EXCEPT !.animationState = "idle", !.timers = Tail(@)], voice)

\* lines 152-154; the button is disabled while isTransitioning and not
\* rendered when isFinished
handlePlayPause ==
    /\ player.mounted
    /\ ~player.isFinished /\ player.animationState = "idle"
    /\ PlayerRenders([player EXCEPT !.isPlaying = ~@], voice)

\* lines 62-65, from the End button (disabled while isTransitioning) or the
\* Close button of the finished presentation
handleStop ==
    /\ player.mounted
    /\ player.isFinished \/ player.animationState = "idle"
    /\ PlayerRenders([player EXCEPT !.mounted = FALSE], voice)

\* lines 67-73, from the Replay button of the finished presentation
handleReplay ==
    /\ player.mounted
    /\ player.isFinished
    /\ PlayerRenders(HandleReplay(player, Closure(player, voice, app.slides)), voice)

\* lines 192-198 with startListening (useVoiceCommands.ts lines 60-101, in a
\* browser with speech recognition) and stopListening; the microphone button
\* is not rendered when isFinished.  The new session gets the processResult
\* and the onend of the render in which the button was clicked.
toggleListen ==
    /\ player.mounted
    /\ ~player.isFinished
    /\ PlayerRenders(player,
                     IF voice.isListening THEN StopListening(voice)
                     ELSE [voice EXCEPT !.session = "active",
                                        !.bound = Closure(player, voice, app.slides),
                                        !.isListening = TRUE,
                                        !.error = Null])

\* What the user says, and the results of a recognition event from
\* event.resultIndex on.
Utterances ==
    {CommandKeys[i] : i \in DOMAIN CommandKeys} \cup {" Next Slide ", "go BACK", "hello", ""}

Final(transcript) == [isFinal |-> TRUE, transcript |-> transcript]

RecognitionEvents ==
    {<<Final(u)>> : u \in Utterances}
    \cup {<<Final("show "), Final("settings")>>,
          <<[isFinal |-> FALSE, transcript |-> "stop"], Final("hold")>>}

\* processedTranscript of line 47, for each of those events
ProcessedTranscript ==
    [results \in RecognitionEvents |-> ToLowerCase(Trim(FinalTranscript(results)))]

\* The keys whose action the loop of lines 52-57 calls, for each of them
Dispatched ==
    [results \in RecognitionEvents |-> Dispatch(ProcessedTranscript[results], CommandKeys)]

\* recognition.onresult, bound in line 76: processResult, lines 39-58, of the
\* render the session was started in
RecognitionResult(results) ==
    /\ player.mounted
    /\ voice.session = "active"
    /\ LET keys == Dispatched[results]
           p == RunCommands(keys, voice.bound, player)
       IN  /\ Len(p.timers) <= MaxTimers
           /\ PlayerRenders(p, [voice EXCEPT !.transcript = ProcessedTranscript[results],
                                             !.executed = keys])

\* The session ends on its own; recognition.onend, lines 91-96, reads the
\* isListening of the render the session was started in.
RecognitionEnd ==
    /\ player.mounted
    /\ voice.session = "active"
    /\ PlayerRenders(player,
                     IF voice.bound.isListening THEN voice
                     ELSE [voice EXCEPT !.session = "ended"])

\* recognition.onerror, lines 78-89; the session ends after an error.
RecognitionError(code) ==
    /\ player.mounted
    /\ voice.session = "active"
    /\ PlayerRenders(player,
                     [voice EXCEPT !.error = CASE code = "not-allowed" -> <<"Permission denied.">>
                                               [] code = "no-speech" -> @
                                               [] OTHER -> <<code>>,
                                   !.isListening = FALSE,
                                   !.session = "ended"])

\* Inputs: decks of 1..MaxPlayerSlides slides and the codes of an error event.
Deck(n) ==
    [i \in 1..n |-> SlideRecord("Slide " \o SubSeq(UpperCase, i, i), <<>>, "Notes")]

PlayerDecks == {Deck(n) : n \in 1..MaxPlayerSlides}

ErrorCodes == {"not-allowed", "no-speech", "network"}

InitPlayer ==
    /\ NoImport
    /\ parser = WellFormed
    /\ second = NotCalled
    /\ \E slides \in PlayerDecks :
          /\ app = [AppInitial EXCEPT !.slides = slides, !.viewMode = "PLAYER"]
          /\ player = PlayerMounted(slides)
    /\ viewer = Unmounted
    /\ voice = VoiceMounted
    /\ inFlight = {}

NextPlayer ==
    \/ NarrationEnd
    \/ ExitTimeout
    \/ EnterTimeout
    \/ handlePlayPause
    \/ handleStop
    \/ handleReplay
    \/ toggleListen
    \/ \E results \in RecognitionEvents : RecognitionResult(results)
    \/ RecognitionEnd
    \/ \E code \in ErrorCodes : RecognitionError(code)

SpecPlayer == InitPlayer /\ [][NextPlayer]_vars

\* The listener with the timers its commands start, while the narration of
\* the first slide goes on.
NextListener ==
    \/ toggleListen
    \/ \E results \in RecognitionEvents : RecognitionResult(results)
    \/ RecognitionEnd
    \/ \E code \in ErrorCodes : RecognitionError(code)
    \/ ExitTimeout
    \/ EnterTimeout

SpecListener == InitPlayer /\ [][NextListener]_vars

(***************************************************************************)
(* Properties of the voice commands and of the video player.               *)
(***************************************************************************)
\* The step is the handling of a recognition result with a new transcript:
\* setTranscript is called in line 48 only.
ResultHandled == voice'.transcript # voice.transcript

\* The transcripts the hook can hold
Transcripts == {ProcessedTranscript[results] : results \in RecognitionEvents} \cup {""}

\* Those that are trimmed and in lower case
Normalised == {t \in Transcripts : t = ToLowerCase(Trim(t))}

\* The first key, in insertion order, that occurs in the transcript t
FirstMatch ==
    [t \in Transcripts |->
        LET matching == {i \in DOMAIN CommandKeys : Includes(t, CommandKeys[i])}
        IN  IF matching = {} THEN <<>> ELSE <<CommandKeys[Least(matching)]>>]

\* C16: for each recognition result the dispatcher runs at most one action,
\* that of the first key in insertion order that occurs in the trimmed
\* lower-cased final transcript, and no action when no key occurs: the keys
\* it ran are that key or none, and the player is changed by that action
\* alone.
DispatchesFirstMatch ==
    /\ [](/\ voice.executed = FirstMatch[voice.transcript]
          /\ voice.transcript \in Normalised)
    /\ [][ResultHandled =>
             LET first == FirstMatch[voice'.transcript]
                 p == IF first = <<>> THEN player
                      ELSE Command(first[1], voice.bound, player)
             IN  player' = IF p.mounted THEN p ELSE Unmounted]_vars

\* "next slide" holds the keys "next" and "next slide"; the action of
\* "next" alone ran and the slide is leaving.
DispatchesFirstMatchWitness ==
    /\ player.mounted
    /\ voice.transcript = "next slide"
    /\ voice.executed = <<"next">>
    /\ player.animationState = "exiting"
    /\ Len(player.timers) = 1

\* C17 (the claim as stated; the code violates it): while listening is
\* wanted, startListening called and stopListening not, the recognition
\* session is running, a session that ended on its own being started again.
ListeningContinues == voice.isListening => voice.session = "active"

\* C18 (the claim as stated; the code violates it): a voice command acts on
\* the state of the player when it is recognized: with the player idle on
\* slide i, "next" requests slide i+1 when i < N-1 and "previous" requests
\* slide i-1 when i > 0.
VoiceActsOnCurrentState ==
    [][/\ ResultHandled
       /\ player.animationState = "idle" /\ player.timers = <<>>
       => LET i == player.currentSlideIndex
              requested(k) == /\ player'.mounted
                              /\ player'.animationState = "exiting"
                              /\ Len(player'.timers) = 1
                              /\ player'.timers[1].nextIndex = k
          IN  /\ voice'.executed = <<"next">> /\ i < Len(app.slides) - 1
                    => requested(i + 1)
              /\ voice'.executed \in {<<"previous">>, <<"back">>} /\ i > 0
                    => requested(i - 1)]_vars

\* C19 (the claim as stated; the code violates it): a transcript that is
\* exactly a key of the command table runs one action, which does what that
\* key's own action does; when the presentation is finished, "replay" and
\* "restart" leave the player on slide 0, playing and not finished.
KeyTriggersOwnAction ==
    [][/\ ResultHandled
       /\ voice'.transcript \in {CommandKeys[i] : i \in DOMAIN CommandKeys}
       => /\ Len(voice'.executed) = 1
          /\ Command(voice'.executed[1], voice.bound, player)
                = Command(voice'.transcript, voice.bound, player)
          /\ player.isFinished /\ voice'.transcript \in {"replay", "restart"}
                => /\ player'.mounted
                   /\ player'.currentSlideIndex = 0
                   /\ player'.isPlaying
                   /\ ~player'.isFinished]_vars

\* C20 (the claim as stated; the code violates it): at most one slide
\* transition is in progress at a time, the animation phases follow one
\* another in the order idle, exiting, entering, idle, and currentSlideIndex
\* is within 0..N-1.
OneTransitionAtATime ==
    [][player.mounted /\ player'.mounted
       => /\ <<player.animationState, player'.animationState>>
                \in {<<"idle", "idle">>, <<"idle", "exiting">>,
                     <<"exiting", "exiting">>, <<"exiting", "entering">>,
                     <<"entering", "entering">>, <<"entering", "idle">>}
          /\ Len(player'.timers) <= 1
          /\ player'.currentSlideIndex \in 0..(Len(app.slides) - 1)]_vars

(***************************************************************************)
(* Image generation in the video player: VideoPlayer.tsx, lines 167-190.   *)
(* As in the slide viewer, the handler runs to its await in one action and *)
(* from its await to its end in another, with the slides and the           *)
(* currentSlideIndex of the render in which the button was clicked.        *)
(***************************************************************************)
\* lines 167-176, up to the await of generateImage.  The button is there
\* when the presentation is shown and no call is pending: "Try Again" after
\* a failed call, "Generate Image" on a paused slide without image (lines
\* 240-268).
handleGenerateImageInPlayer ==
    /\ player.mounted
    /\ ~player.isFinished /\ ~player.isGeneratingImage
    /\ \/ player.imageError # Null
       \/ "imageUrl" \notin DOMAIN player.slideContent /\ ~player.isPlaying
    /\ Cardinality(inFlight) < MaxImageRequests
    /\ player' = [player EXCEPT !.isGeneratingImage = TRUE, !.imageError = Null,
                                !.isPlaying = FALSE]
    /\ inFlight' = inFlight \cup {[slides |-> app.slides,
                                   index |-> player.currentSlideIndex,
                                   ownerMounted |-> TRUE]}
    /\ UNCHANGED <<importer, parser, second, app, viewer, voice>>

\* lines 176-189: generateImage has returned (fulfilled) or thrown.
\* onSlidesChange is the setter of App; the player's own setters do nothing
\* once it is unmounted.
PlayerImageSettled(r, fulfilled) ==
    /\ r \in inFlight
    /\ LET newSlides == [i \in 1..Len(r.slides) |->
                            IF i - 1 = r.index THEN WithImage(r.slides[i], ImageUrl)
                            ELSE r.slides[i]]
           a == IF fulfilled THEN [app EXCEPT !.slides = newSlides] ELSE app
       IN  /\ app' = a
           /\ viewer' = RenderViewer(a, viewer, fulfilled)
           /\ player' = IF ~player.mounted THEN player
                        ELSE IF fulfilled
                        THEN [player EXCEPT !.slideContent = newSlides[r.index + 1],
                                            !.isGeneratingImage = FALSE]
                        ELSE [player EXCEPT !.imageError = <<ErrGenerateImage>>,
                                            !.isGeneratingImage = FALSE]
    /\ inFlight' = inFlight \ {r}
    /\ UNCHANGED <<importer, parser, second, voice>>

\* The commands said while an image is generated
SlideCommands == {<<Final(u)>> : u \in {"next", "previous", "pause"}}

\* The player with its image generation, listening to those commands
NextPlayerImage ==
    \/ NarrationEnd
    \/ ExitTimeout
    \/ EnterTimeout
    \/ handlePlayPause
    \/ handleReplay
    \/ toggleListen
    \/ \E results \in SlideCommands : RecognitionResult(results)
    \/ handleGenerateImageInPlayer
    \/ \E r \in inFlight, fulfilled \in BOOLEAN : PlayerImageSettled(r, fulfilled)

SpecPlayerImage == InitPlayer /\ [][NextPlayerImage]_vars

\* C21 (the claim as stated; the code violates it): whenever the player is
\* idle, the slide it displays is the slide of the deck at currentSlideIndex.
IdleShowsCurrentSlide ==
    player.mounted /\ player.animationState = "idle"
       => player.slideContent = app.slides[player.currentSlideIndex + 1]

\* The slide viewer with its image generation (SlideViewer.tsx, lines
\* 81-99): its controls stay enabled while a call is pending.
NextViewerImage ==
    \/ NextViewer
    \/ handleGenerateImage
    \/ \E r \in inFlight, fulfilled \in BOOLEAN : ImageSettled(r, fulfilled)

SpecViewerImage == InitViewer /\ [][NextViewerImage]_vars

\* C22 (the claim as stated; the code violates it): when an image
\* generation request of the slide viewer completes, the deck changes only
\* in the imageUrl of the slide the request was started on, so what was
\* saved while the request was in flight is still in the deck.
ImageChangesOnlyImageUrl ==
    [][\A r \in inFlight \ inFlight' :
          \/ app'.slides = app.slides
          \/ app'.slides = [i \in 1..Len(app.slides) |->
                               IF i - 1 = r.index
                               THEN WithImage(app.slides[i], ImageUrl)
                               ELSE app.slides[i]]]_vars

====
